---------------------------- MODULE Spec2Model ----------------------------
(***************************************************************************)
(* Model of btgym/datafeed/synthetic/stochastic.py: the Ornstein-Uhlenbeck *)
(* trajectory generator, the three parameter-sampling functions and the    *)
(* coupled-wave pair generator.                                            *)
(*                                                                         *)
(* Numbers.  Python floats are modelled as exact rationals [n, d] in       *)
(* lowest terms with d > 0; the record with d = 0 is the non-finite value  *)
(* (IEEE NaN): every arithmetic operation on it yields it again and every  *)
(* ordered comparison with it is false.  Floating-point rounding error is  *)
(* not modelled.  np.sqrt is rounded down to a multiple of 1/8.            *)
(* Mean-reversion rates handed to np.exp are the multiples k*ln(2), on     *)
(* which exp(-k*ln 2) is the exact rational 2^(-k); ln(2) itself, which    *)
(* only enters the noise coefficient, is taken as 11/16.                   *)
(*                                                                         *)
(* Random source.  A standard-normal draw is a value of Z, a uniform       *)
(* [0,1) draw is a value of U; np.random.normal(loc, scale) is             *)
(* loc + scale*z and np.random.uniform(low, high) is low + (high-low)*u,   *)
(* as numpy computes them.                                                 *)
(***************************************************************************)
EXTENDS Integers, Sequences, FiniteSets

VARIABLES
    \* coupled_wave_pair_generator_fn
    args,        \* the call's parameters, by name
    pc,          \* "entry", "loop", "returned", "raised"
    i,           \* loop iterations completed
    x_mid1, x_low1, x_high1, x_last1,
    x_mid2, x_low2, x_high2, x_last2,
    d_s, drift1, \* the values computed by the latest iteration
    ret,         \* the returned array, <<>> before the return
    err,         \* the exception raised, "" if none
    np_strict,   \* whether the build's numpy rejects a non-finite uniform range
    \* the random source as seen by two successive calls
    call,        \* 1 or 2: which call of the pair is running
    tape,        \* draws delivered to the running call, in order
    seeded,      \* draws the reseeded source will deliver to the second call
    first,       \* outcome of the first call
    \* parameter-sampling functions
    s_fn, s_in, s_out,
    \* ornshtein_uhlenbeck_process_fn
    ou_args,     \* the call's parameters, by name
    ou_pc,       \* "entry", "loop", "returned", or the exception raised
    ou_i,        \* the index the loop fills next
    x            \* the trajectory

cwvars == <<args, pc, i, x_mid1, x_low1, x_high1, x_last1,
            x_mid2, x_low2, x_high2, x_last2, d_s, drift1, ret, err,
            np_strict>>
rngvars == <<call, tape, seeded, first>>
svars == <<s_fn, s_in, s_out>>
ouvars == <<ou_args, ou_pc, ou_i, x>>
vars == <<cwvars, rngvars, svars, ouvars>>

---------------------------------------------------------------------------
(* Bounds of the model. *)

\* Budget of the coupled-wave generator: a call with j sigmas that are not
\* zero runs at most MaxPoints \div (j + 1) loop iterations (never fewer
\* than 1).
MaxPoints == 4
\* Longest Ornstein-Uhlenbeck trajectory.
MaxLen == 4

---------------------------------------------------------------------------
(* Rational arithmetic with a non-finite value. *)

RECURSIVE Gcd(_, _)
Gcd(a, b) == IF b = 0 THEN a ELSE Gcd(b, a % b)

Abs(k) == IF k < 0 THEN -k ELSE k

NaN == [n |-> 0, d |-> 0]

IsFinite(a) == a.d # 0

\* The rational n/d in lowest terms; a zero denominator is non-finite.
Q(n, d) ==
    IF d = 0 THEN NaN
    ELSE LET g == Gcd(Abs(n), Abs(d))
             s == IF d < 0 THEN -1 ELSE 1
         IN [n |-> s * (n \div g), d |-> s * (d \div g)]

R(k) == [n |-> k, d |-> 1]

Lcm(a, b) == (a \div Gcd(a, b)) * b

Add(a, b) ==
    IF a.d = 0 \/ b.d = 0 THEN NaN
    ELSE LET l == Lcm(a.d, b.d)
         IN Q(a.n * (l \div a.d) + b.n * (l \div b.d), l)

Neg(a) == [n |-> -a.n, d |-> a.d]

Sub(a, b) == Add(a, Neg(b))

Mul(a, b) ==
    IF a.d = 0 \/ b.d = 0 THEN NaN
    ELSE LET g1 == Gcd(Abs(a.n), b.d)
             g2 == Gcd(Abs(b.n), a.d)
         IN Q((a.n \div g1) * (b.n \div g2), (a.d \div g2) * (b.d \div g1))

\* a / b.  The only division by zero the code performs is 0.0 / 0, which
\* numpy evaluates to nan.
Div(a, b) ==
    IF a.d = 0 \/ b.d = 0 \/ b.n = 0 THEN NaN
    ELSE Mul(a, Q(b.d, b.n))

Half(a) == Div(a, R(2))

\* Ordered comparisons: false as soon as an operand is non-finite.
Leq(a, b) ==
    /\ a.d # 0 /\ b.d # 0
    /\ LET l == Lcm(a.d, b.d) IN a.n * (l \div a.d) <= b.n * (l \div b.d)

Lt(a, b) == Leq(a, b) /\ a # b

AbsR(a) == [n |-> Abs(a.n), d |-> a.d]

RECURSIVE Pow(_, _)
Pow(b, e) == IF e = 0 THEN 1 ELSE b * Pow(b, e - 1)

RECURSIVE ISqrtFrom(_, _)
ISqrtFrom(m, k) == IF (k + 1) * (k + 1) > m THEN k ELSE ISqrtFrom(m, k + 1)

\* x ** .5, rounded down to a multiple of 1/8; nan for a negative or
\* non-finite operand.
Sqrt(a) ==
    IF a.d = 0 \/ a.n < 0 THEN NaN
    ELSE Q(ISqrtFrom((a.n * 64) \div a.d, 0), 8)

\* np.exp(-l) for l = k*ln(2): the exact 2^(-k).
ExpNeg(k) == IF k >= 0 THEN Q(1, Pow(2, k)) ELSE R(Pow(2, -k))

\* The float k*ln(2) as it enters ordinary arithmetic.
Ln2Times(k) == Q(11 * k, 16)

\* np.around(v, decimals): round half to even at 10^-decimals.
Around(v, decimals) ==
    IF v.d = 0 THEN NaN
    ELSE LET s == Pow(10, decimals)
             m == v.n * s
             f == m \div v.d
             r == m - f * v.d
             k == IF 2 * r < v.d THEN f
                  ELSE IF 2 * r > v.d THEN f + 1
                  ELSE IF f % 2 = 0 THEN f ELSE f + 1
         IN Q(k, s)

\* np.clip(v, lo, None)
ClipLow(v, lo) == IF v.d = 0 THEN NaN ELSE IF Lt(v, lo) THEN lo ELSE v

\* np.random.normal(loc, scale) given the standard-normal draw z
Normal(loc, scale, z) == Add(loc, Mul(scale, z))

\* np.random.uniform(low, high) given the [0,1) draw u
Uniform(low, high, u) == Add(low, Mul(Sub(high, low), u))

\* Standard-normal draws and [0,1) draws the random source can deliver.
Z == {R(-1), R(0), R(1)}
U == {R(0), Q(1, 2)}

---------------------------------------------------------------------------
(* coupled_wave_pair_generator_fn *)

\* Line 280 with the sign of line 282.
s_low_raised(x_mid, h_val) == Add(x_mid, Half(h_val))

s_low(x_mid, h_val) == Sub(x_mid, Half(h_val))

s_high(x_mid, h_val) == Add(x_mid, Half(h_val))

\* np.random.uniform(low=x_low, high=x_high) given its [0,1) draw
s_last(x_low, x_high, u) == Uniform(x_low, x_high, u)

\* Lines 275-278 without the np.clip floor.
h_unclipped(sigma1, sigma2, mean1, mean2, z1, z2) ==
    LET n1 == Normal(mean1, sigma1, z1)
        n2 == Normal(mean2, sigma2, z2)
    IN Sqrt(Add(Mul(n1, n1), Mul(n2, n2)))

\* The spread value: two normal draws combined and floored at mean1.
h(sigma1, sigma2, mean1, mean2, z1, z2) ==
    LET n1 == Normal(mean1, sigma1, z1)
        n2 == Normal(mean2, sigma2, z2)
    IN ClipLow(Sqrt(Add(Mul(n1, n1), Mul(n2, n2))), mean1)

\* Lines 286-287 with the quotient replaced by its limit 1 at l = 0.
ou_noise_scale_guarded(l, sigma) ==
    IF l = 0 THEN sigma
    ELSE Mul(sigma, Sqrt(Div(Sub(R(1), ExpNeg(2 * l)), Ln2Times(2 * l))))

\* sigma * ((1 - exp(-2*l)) / (2*l)) ** .5, for l = k*ln(2)
ou_noise_scale(l, sigma) ==
    Mul(sigma, Sqrt(Div(Sub(R(1), ExpNeg(2 * l)), Ln2Times(2 * l))))

\* The coupling increment; ou_mu is the enclosing call's parameter.
delta_ou(s, l, sigma, z) ==
    Add(Mul(Sub(args.ou_mu, s), Sub(R(1), ExpNeg(l))),
        Mul(ou_noise_scale(l, sigma), z))

Last(seq) == seq[Len(seq)]

\* Line 307: the first series adds half the coupling increment.
next_mid1(last, drift, ds) == Add(Mul(last, Add(R(1), drift)), Half(ds))

\* A sign slip on line 308: the second series adds the increment too.
next_mid2_added(last, drift, ds) == Add(Mul(last, Add(R(1), drift)), Half(ds))

\* Line 308: the second series subtracts it.
next_mid2(last, drift, ds) == Sub(Mul(last, Add(R(1), drift)), Half(ds))

\* Line 292 as it would be were the history a list outliving the call: a
\* later call goes on from the last value of the earlier one.
seed_last1_kept == IF x_last1 = <<>> THEN Add(args.bias, Half(args.ou_mu)) ELSE Last(x_last1)

\* Lines 292 and 296: the seeds of the two "last" histories.
seed_last1 == Add(args.bias, Half(args.ou_mu))

\* Line 296 without its offset: both series seeded alike.
seed_last2_unshifted == args.bias

seed_last2 == Sub(args.bias, Half(args.ou_mu))


\* The draws that give np.random.normal(loc, scale) its distinct values:
\* with scale = 0 every draw returns loc.
NormalDraws(scale) == IF scale = R(0) THEN {R(0)} ELSE Z

\* The eight draws of one loop iteration, in the order the code makes them.
DrawVectors ==
    [z_ou : NormalDraws(args.ou_sigma), z_drift : NormalDraws(args.drift_sigma),
     z_h1a : NormalDraws(args.spread_sigma_1), z_h1b : NormalDraws(args.spread_sigma_2),
     z_h2a : NormalDraws(args.spread_sigma_1), z_h2b : NormalDraws(args.spread_sigma_2),
     u1 : U, u2 : U]

\* Lines 289-296: the histories are seeded at index 0.
Enter ==
    /\ pc = "entry"
    /\ x_mid1' = <<args.bias>>
    /\ x_low1' = <<args.bias>>
    /\ x_high1' = <<args.bias>>
    /\ x_last1' = <<seed_last1>>
    /\ x_mid2' = <<args.bias>>
    /\ x_low2' = <<args.bias>>
    /\ x_high2' = <<args.bias>>
    /\ x_last2' = <<seed_last2>>
    /\ i' = 0
    /\ pc' = "loop"
    /\ UNCHANGED <<args, np_strict, d_s, drift1, ret, err>>

\* Lines 299-323: one iteration of the loop with the draws dr.  A uniform
\* draw over a non-finite range raises OverflowError where numpy checks the
\* range, and yields nan where it does not.
IterateWith(dr) ==
    /\ pc = "loop"
    /\ i < args.num_points
    /\ \E x_last_ou \in {Sub(Last(x_last1), Last(x_last2))} :
       \E ds \in {delta_ou(x_last_ou, args.ou_lambda, args.ou_sigma, dr.z_ou)},
          dr1 \in {Normal(R(0), args.drift_sigma, dr.z_drift)} :
       \E mid1 \in {next_mid1(Last(x_last1), dr1, ds)},
          mid2 \in {next_mid2(Last(x_last2), dr1, ds)},
          h1_val \in {h(args.spread_sigma_1, args.spread_sigma_2,
                        args.spread_mean_1, args.spread_mean_2, dr.z_h1a, dr.z_h1b)},
          h2_val \in {h(args.spread_sigma_1, args.spread_sigma_2,
                        args.spread_mean_1, args.spread_mean_2, dr.z_h2a, dr.z_h2b)} :
       \E low1 \in {s_low(mid1, h1_val)}, high1 \in {s_high(mid1, h1_val)},
          low2 \in {s_low(mid2, h2_val)}, high2 \in {s_high(mid2, h2_val)} :
       \E bad1 \in {np_strict /\ ~IsFinite(Sub(high1, low1))},
          bad2 \in {np_strict /\ ~IsFinite(Sub(high2, low2))} :
          /\ d_s' = ds
          /\ drift1' = dr1
          /\ x_mid1' = Append(x_mid1, mid1)
          /\ x_mid2' = Append(x_mid2, mid2)
          /\ x_low1' = Append(x_low1, low1)
          /\ x_high1' = Append(x_high1, high1)
          /\ x_last1' = IF bad1 THEN x_last1
                        ELSE Append(x_last1, s_last(low1, high1, dr.u1))
          /\ x_low2' = IF bad1 THEN x_low2 ELSE Append(x_low2, low2)
          /\ x_high2' = IF bad1 THEN x_high2 ELSE Append(x_high2, high2)
          /\ x_last2' = IF bad1 \/ bad2 THEN x_last2
                        ELSE Append(x_last2, s_last(low2, high2, dr.u2))
          /\ pc' = IF bad1 \/ bad2 THEN "raised" ELSE "loop"
          /\ err' = IF bad1 \/ bad2 THEN "OverflowError" ELSE err
          /\ i' = IF bad1 \/ bad2 THEN i ELSE i + 1
    /\ UNCHANGED <<args, np_strict, ret>>

RECURSIVE MapAround(_, _)
MapAround(seq, decimals) ==
    IF seq = <<>> THEN <<>>
    ELSE <<Around(Head(seq), decimals)>> \o MapAround(Tail(seq), decimals)

\* Line 325 without the [:, :, 1:] slice.
ColumnWithSeed(hist, decimals) == MapAround(hist, decimals)

\* One field of the result: x[:, :, 1:] drops history index 0, np.around
\* rounds what is left.
Column(hist, decimals) == MapAround(Tail(hist), decimals)

\* Lines 325-327: stack the histories, drop the seed column, round.
Return ==
    /\ pc = "loop"
    /\ i >= args.num_points
    /\ ret' = << <<Column(x_mid1, args.keep_decimals), Column(x_high1, args.keep_decimals),
                   Column(x_low1, args.keep_decimals), Column(x_last1, args.keep_decimals)>>,
                 <<Column(x_mid2, args.keep_decimals), Column(x_high2, args.keep_decimals),
                   Column(x_low2, args.keep_decimals), Column(x_last2, args.keep_decimals)>> >>
    /\ pc' = "returned"
    /\ UNCHANGED <<args, np_strict, i, x_mid1, x_low1, x_high1, x_last1,
                   x_mid2, x_low2, x_high2, x_last2, d_s, drift1, err>>

\* The number of sigmas that are not zero.
Noisy(a) ==
    Cardinality({f \in {"drift_sigma", "ou_sigma", "spread_sigma_1", "spread_sigma_2"} :
                    a[f] # R(0)})

\* The call the others are variations of.
Typical ==
    [drift_sigma |-> R(0), ou_sigma |-> R(0), ou_lambda |-> 1, ou_mu |-> R(2),
     spread_sigma_1 |-> R(0), spread_sigma_2 |-> R(0),
     spread_mean_1 |-> R(1), spread_mean_2 |-> R(0),
     bias |-> R(10), keep_decimals |-> 0]

\* The parameters in which the call a differs from the typical call.
Varied(a) == {f \in DOMAIN Typical : a[f] # Typical[f]}

\* The calls the model makes: the typical call and the calls that differ
\* from it in at most two parameters, with every iteration count that fits
\* the budget.
Calls ==
    {a \in [num_points : -1 .. MaxPoints,
            drift_sigma : {R(0), Q(1, 2)},
            ou_sigma : {R(0), R(1)},
            ou_lambda : {-1, 0, 1},
            ou_mu : {R(-1), R(2)},
            spread_sigma_1 : {R(0), R(1)},
            spread_sigma_2 : {R(0), R(1)},
            spread_mean_1 : {Q(1, 4), R(1)},
            spread_mean_2 : {R(0), R(1)},
            bias : {R(10)},
            keep_decimals : {0, 1}] :
        /\ Cardinality(Varied(a)) <= 2
        /\ a.num_points <= 1 \/ a.num_points * (Noisy(a) + 1) <= MaxPoints}

CWIdle ==
    /\ pc = "entry" /\ i = 0
    /\ x_mid1 = <<>> /\ x_low1 = <<>> /\ x_high1 = <<>> /\ x_last1 = <<>>
    /\ x_mid2 = <<>> /\ x_low2 = <<>> /\ x_high2 = <<>> /\ x_last2 = <<>>
    /\ d_s = R(0) /\ drift1 = R(0) /\ ret = <<>> /\ err = ""

RngIdle == call = 1 /\ tape = <<>> /\ seeded = <<>> /\ first = <<>>
SamplerIdle == s_fn = "" /\ s_in = <<>> /\ s_out = <<>>
OUIdle == ou_args = <<>> /\ ou_pc = "" /\ ou_i = 0 /\ x = <<>>

InitCW ==
    /\ args \in Calls
    \* only ou_lambda = 0 makes a value non-finite, so only there can the
    \* two kinds of build differ
    /\ np_strict \in (IF args.ou_lambda = 0 THEN BOOLEAN ELSE {TRUE})
    /\ CWIdle /\ RngIdle /\ SamplerIdle /\ OUIdle

Iterate == \E dr \in DrawVectors : IterateWith(dr)

NextCW ==
    \/ Enter /\ UNCHANGED <<rngvars, svars, ouvars>>
    \/ Iterate /\ UNCHANGED <<rngvars, svars, ouvars>>
    \/ Return /\ UNCHANGED <<rngvars, svars, ouvars>>

SpecCW == InitCW /\ [][NextCW]_vars

---------------------------------------------------------------------------
(* Two successive calls of coupled_wave_pair_generator_fn with the same    *)
(* parameters, the random source being reseeded in between so that it      *)
(* delivers the same draws again.  The histories are locals of the call:   *)
(* between the calls they hold whatever the first call left, and the       *)
(* second call's seeding (Enter) assigns them anew.                        *)

\* The draws the random source delivers to the next iteration: anything on
\* the first call, the recorded draws on the second.
Delivered ==
    IF call = 1 THEN DrawVectors
    ELSE IF Len(tape) < Len(seeded) THEN {seeded[Len(tape) + 1]} ELSE {}

EnterCall == Enter /\ UNCHANGED <<rngvars, svars, ouvars>>

IterateSeeded ==
    \E dr \in Delivered :
        /\ IterateWith(dr)
        /\ tape' = Append(tape, dr)
        /\ UNCHANGED <<call, seeded, first, svars, ouvars>>

ReturnCall == Return /\ UNCHANGED <<rngvars, svars, ouvars>>

\* The caller keeps the first outcome, reseeds the random source and calls
\* again with the same parameters.
CallAgain ==
    /\ call = 1
    /\ pc \in {"returned", "raised"}
    /\ first' = [ret |-> ret, err |-> err, tape |-> tape]
    /\ seeded' = tape
    /\ tape' = <<>>
    /\ call' = 2
    /\ pc' = "entry"
    /\ ret' = <<>>
    /\ err' = ""
    /\ UNCHANGED <<args, np_strict, i, x_mid1, x_low1, x_high1, x_last1,
                   x_mid2, x_low2, x_high2, x_last2, d_s, drift1, svars, ouvars>>

\* The calls made twice: the typical call and its one-parameter variations.
ReplayCalls == {a \in Calls : Cardinality(Varied(a)) <= 1}

InitReplay ==
    /\ args \in ReplayCalls
    /\ np_strict \in (IF args.ou_lambda = 0 THEN BOOLEAN ELSE {TRUE})
    /\ CWIdle /\ RngIdle /\ SamplerIdle /\ OUIdle

NextReplay == EnterCall \/ IterateSeeded \/ ReturnCall \/ CallAgain

SpecReplay == InitReplay /\ [][NextReplay]_vars

---------------------------------------------------------------------------
(* Properties of coupled_wave_pair_generator_fn *)

\* The histories by asset and field, fields in the order of the result.
Hist(a, f) ==
    IF a = 1 THEN <<x_mid1, x_high1, x_low1, x_last1>>[f]
    ELSE <<x_mid2, x_high2, x_low2, x_last2>>[f]

\* The inputs section 4.4 of the specification admits.
ValidInputs ==
    /\ args.num_points >= 1 /\ args.ou_lambda > 0
    /\ Leq(R(0), args.drift_sigma) /\ Leq(R(0), args.ou_sigma)
    /\ Leq(R(0), args.spread_sigma_1) /\ Leq(R(0), args.spread_sigma_2)
    /\ Leq(R(0), args.spread_mean_1) /\ Leq(R(0), args.spread_mean_2)

\* ret has the shape [2, 4, n].
HasShape(n) ==
    /\ Len(ret) = 2
    /\ \A a \in 1..2 : Len(ret[a]) = 4 /\ \A f \in 1..4 : Len(ret[a][f]) = n

\* C1: a call with num_points >= 1 that returns, returns an array of shape
\* [2, 4, num_points] whose fields are mid, high, low, last in that order
\* and whose column t is the rounded history index t (the seed at history
\* index 0 is not part of it).
C1_ShapeAndOrder ==
    (pc = "returned" /\ args.num_points >= 1) =>
        /\ HasShape(args.num_points)
        /\ \A a \in 1..2, f \in 1..4, t \in 1..args.num_points :
              ret[a][f][t] = Around(Hist(a, f)[t + 1], args.keep_decimals)

C1_Witness ==
    /\ pc = "returned" /\ args.num_points = 2
    /\ ret[1][4][2] # ret[1][1][2] /\ ret[1][1][1] # Around(x_mid1[1], args.keep_decimals)

\* C2: in the returned array, for valid inputs and whatever the draws were,
\* low <= mid <= high and low <= last <= high at every generated step of
\* each asset.
C2_BandOrder ==
    (pc = "returned" /\ ValidInputs) =>
        \A a \in 1..2, t \in 1..args.num_points :
            /\ Leq(ret[a][3][t], ret[a][1][t]) /\ Leq(ret[a][1][t], ret[a][2][t])
            /\ Leq(ret[a][3][t], ret[a][4][t]) /\ Leq(ret[a][4][t], ret[a][2][t])

C2_Witness ==
    /\ pc = "returned" /\ ValidInputs /\ args.num_points >= 2
    /\ args.spread_sigma_1 # R(0)
    /\ Lt(ret[2][3][2], ret[2][4][2]) /\ Lt(ret[2][4][2], ret[2][2][2])

\* C3 as stated: in the returned (rounded) array high - low is never below
\* spread_mean_1.
C3_RoundedBandAtLeastMean ==
    (pc = "returned" /\ ValidInputs) =>
        \A a \in 1..2, t \in 1..args.num_points :
            Leq(args.spread_mean_1, Sub(ret[a][2][t], ret[a][3][t]))

\* 10^-decimals, the resolution of the returned array.
Resolution == Q(1, Pow(10, args.keep_decimals))

\* C3 amended: before rounding high - low is never below spread_mean_1; in
\* the returned array high - low is never below spread_mean_1 minus the
\* rounding resolution 10^-keep_decimals.
C3_BandAtLeastMean ==
    (pc = "returned" /\ ValidInputs) =>
        \A a \in 1..2, t \in 1..args.num_points :
            /\ Leq(args.spread_mean_1, Sub(Hist(a, 2)[t + 1], Hist(a, 3)[t + 1]))
            /\ Leq(Sub(args.spread_mean_1, Resolution),
                   Sub(ret[a][2][t], ret[a][3][t]))

C3_Witness ==
    /\ pc = "returned" /\ ValidInputs
    /\ \E a \in 1..2, t \in 1..args.num_points :
          /\ Lt(Sub(ret[a][2][t], ret[a][3][t]), args.spread_mean_1)
          /\ Sub(Hist(a, 2)[t + 1], Hist(a, 3)[t + 1]) = args.spread_mean_1

\* C4 as stated: a call with ou_lambda <= 0 or num_points < 1 ends with an
\* InvalidParameter error and returns no array.
C4_InvalidParameterRaised ==
    (pc \in {"returned", "raised"} /\ (args.ou_lambda <= 0 \/ args.num_points < 1)) =>
        pc = "raised" /\ err = "InvalidParameter" /\ ret = <<>>

IsNaN(v) == ~IsFinite(v)

AllFinite ==
    \A a \in 1..2, f \in 1..4 : \A t \in 1..Len(ret[a][f]) : IsFinite(ret[a][f][t])

AllNaN ==
    \A a \in 1..2, f \in 1..4 : \A t \in 1..Len(ret[a][f]) : IsNaN(ret[a][f][t])

\* C4 amended: the function validates nothing.  With num_points < 1 it
\* returns an empty array of shape [2, 4, 0]; with ou_lambda < 0 and
\* num_points >= 1 it returns a finite array of shape [2, 4, num_points];
\* with ou_lambda = 0 and num_points >= 1 every value it computes is nan and
\* the call either fails in the first iteration with numpy's OverflowError
\* (a build whose uniform draw checks its range) or returns an array of
\* shape [2, 4, num_points] of nan.
C4_NoValidation ==
    /\ err \in {"", "OverflowError"}
    /\ (pc \in {"returned", "raised"} /\ args.num_points < 1) =>
          pc = "returned" /\ err = "" /\ HasShape(0)
    /\ (pc \in {"returned", "raised"} /\ args.num_points >= 1 /\ args.ou_lambda < 0) =>
          pc = "returned" /\ err = "" /\ HasShape(args.num_points) /\ AllFinite
    /\ (pc \in {"returned", "raised"} /\ args.num_points >= 1 /\ args.ou_lambda = 0) =>
          \/ pc = "raised" /\ err = "OverflowError" /\ np_strict /\ i = 0 /\ ret = <<>>
          \/ pc = "returned" /\ err = "" /\ ~np_strict
                /\ HasShape(args.num_points) /\ AllNaN

C4_Witness ==
    /\ pc = "returned" /\ args.ou_lambda = 0 /\ args.num_points = 2
    /\ args.ou_sigma = R(0) /\ IsNaN(ret[1][1][1])

\* C8: after every iteration that produced finite values, with prev the
\* history index before the latest one: mid1 - mid2 =
\* (last1[prev] - last2[prev])*(1 + drift1) + d_s and mid1 + mid2 =
\* (last1[prev] + last2[prev])*(1 + drift1), one drift1 and one d_s serving
\* both series; without OU noise d_s is (ou_mu - (last1[prev] - last2[prev]))
\* * (1 - exp(-ou_lambda)).
C8_SharedDriftAndCoupling ==
    (pc \in {"loop", "returned"} /\ i >= 1 /\ args.ou_lambda # 0) =>
        LET mid1 == x_mid1[i + 1]
            mid2 == x_mid2[i + 1]
            l1 == x_last1[i]
            l2 == x_last2[i]
        IN /\ Sub(mid1, mid2) = Add(Mul(Sub(l1, l2), Add(R(1), drift1)), d_s)
           /\ Add(mid1, mid2) = Mul(Add(l1, l2), Add(R(1), drift1))
           /\ args.ou_sigma = R(0) =>
                 d_s = Mul(Sub(args.ou_mu, Sub(l1, l2)), Sub(R(1), ExpNeg(args.ou_lambda)))

C8_Witness ==
    /\ pc = "loop" /\ i = 2 /\ args.ou_lambda = 1
    /\ d_s # R(0) /\ drift1 # R(0) /\ Sub(x_last1[2], x_last2[2]) # args.ou_mu

\* C9: the histories start with mid = high = low = bias for both series,
\* last1 = bias + ou_mu/2 and last2 = bias - ou_mu/2, whose difference is
\* ou_mu; so the first iteration's d_s is pure noise (its mean-reverting
\* part is zero), and with ou_sigma = 0 and drift_sigma = 0 the first mids
\* are exactly bias + ou_mu/2 and bias - ou_mu/2.
C9_Seeding ==
    (pc # "entry") =>
        /\ \A a \in 1..2, f \in 1..3 : Hist(a, f)[1] = args.bias
        /\ x_last1[1] = Add(args.bias, Half(args.ou_mu))
        /\ x_last2[1] = Sub(args.bias, Half(args.ou_mu))
        /\ Sub(x_last1[1], x_last2[1]) = args.ou_mu
        /\ (i = 1 /\ args.ou_lambda # 0) =>
              \E z \in Z : d_s = Mul(ou_noise_scale(args.ou_lambda, args.ou_sigma), z)
        /\ (i >= 1 /\ args.ou_lambda # 0 /\ args.ou_sigma = R(0)
                /\ args.drift_sigma = R(0)) =>
              /\ x_mid1[2] = Add(args.bias, Half(args.ou_mu))
              /\ x_mid2[2] = Sub(args.bias, Half(args.ou_mu))

C9_Witness ==
    /\ pc = "loop" /\ i = 1 /\ args.ou_lambda = 1 /\ args.ou_mu = R(2)
    /\ args.ou_sigma = R(0) /\ args.drift_sigma = R(0)
    /\ x_mid1[2] = R(11) /\ x_mid2[2] = R(9) /\ d_s = R(0)

---------------------------------------------------------------------------
(* The parameter-sampling functions.  A parameter is given as a scalar,   *)
(* [kind |-> "scalar", v |-> a], as an iterable, [kind |-> "list",         *)
(* xs |-> <<...>>], or (x0 of the OU samplers) as None.                    *)

Scalar(a) == [kind |-> "scalar", v |-> a]
List(xs) == [kind |-> "list", xs |-> xs]
None == [kind |-> "none"]

\* if type(p) in [int, float, np.float64]: p = [p, p]  else: p = list(p)
as_list(p) == IF p.kind = "scalar" THEN <<p.v, p.v>> ELSE p.xs

\* len(p) == 2 and 0 < p[0] <= p[-1]
positive_interval(p) == Len(p) = 2 /\ Lt(R(0), p[1]) /\ Leq(p[1], p[Len(p)])

\* len(p) == 2 and 0 <= p[0] <= p[-1]
nonnegative_interval(p) == Len(p) = 2 /\ Leq(R(0), p[1]) /\ Leq(p[1], p[Len(p)])

\* len(p) == 2 and p[0] <= p[-1]
ordered_interval(p) == Len(p) = 2 /\ Leq(p[1], p[Len(p)])

\* np.random.uniform(high=p[-1]): the low bound left at its default 0.
sample_from_zero(p, u) == Uniform(R(0), p[Len(p)], u)

\* np.random.uniform(low=p[0], high=p[-1])
sample(p, u) == Uniform(p[1], p[Len(p)], u)

RECURSIVE Log2(_)
\* log2 of a positive power of two
Log2(k) == IF k <= 1 THEN 0 ELSE 1 + Log2(k \div 2)

\* utils.log_uniform(lo_hi, 1): uniform between log(lo) and log(hi), then
\* exponentiated.  Exact on bounds that are powers of 4 with u in {0, 1/2}.
log_uniform(p, u) ==
    LET a == Log2(p[1].n)
        b == Log2(p[Len(p)].n)
        e == Add(R(a), Mul(R(b - a), u))
    IN R(Pow(2, e.n))

raised(draws) == [status |-> "raised", err |-> "AssertionError", draws |-> draws]
returned(draws, value) == [status |-> "returned", draws |-> draws, value |-> value]

\* Lines 39-61; us are the uniform draws the random source would deliver.
weiner_process_uniform_parameters_fn(delta, x0, us) ==
    LET deltaL == as_list(delta)
        x0L == as_list(x0)
    IN IF ~nonnegative_interval(deltaL) THEN raised(0)
       ELSE IF ~nonnegative_interval(x0L) THEN raised(0)
       ELSE returned(2, [delta |-> sample(deltaL, us[1]), x0 |-> sample(x0L, us[2])])

\* Lines 135-148 and 207-220: the starting point, chosen after l, sigma and
\* mu have been drawn.
starting_point(x0, l_value, sigma_value, mu_value, u) ==
    IF x0 = None
    THEN returned(3, [l |-> l_value, sigma |-> sigma_value, mu |-> mu_value,
                      x0 |-> mu_value])
    ELSE LET x0L == as_list(x0)
         IN IF ~ordered_interval(x0L) THEN raised(3)
            ELSE returned(4, [l |-> l_value, sigma |-> sigma_value, mu |-> mu_value,
                              x0 |-> sample(x0L, u)])

\* Lines 107-159.
ornshtein_uhlenbeck_uniform_parameters_fn(mu, l, sigma, x0, us) ==
    LET lL == as_list(l)
        sigmaL == as_list(sigma)
        muL == as_list(mu)
    IN IF ~positive_interval(lL) THEN raised(0)
       ELSE IF ~nonnegative_interval(sigmaL) THEN raised(0)
       ELSE IF ~ordered_interval(muL) THEN raised(0)
       ELSE LET l_value == sample(lL, us[1])
                sigma_value == sample(sigmaL, us[2])
                mu_value == sample(muL, us[3])
            IN starting_point(x0, l_value, sigma_value, mu_value, us[4])

\* Lines 179-231.
ornshtein_uhlenbeck_log_uniform_parameters_fn(mu, l, sigma, x0, us) ==
    LET lL == as_list(l)
        sigmaL == as_list(sigma)
        muL == as_list(mu)
    IN IF ~positive_interval(lL) THEN raised(0)
       ELSE IF ~nonnegative_interval(sigmaL) THEN raised(0)
       ELSE IF ~ordered_interval(muL) THEN raised(0)
       ELSE LET l_value == log_uniform(lL, us[1])
                sigma_value == sample(sigmaL, us[2])
                mu_value == sample(muL, us[3])
            IN starting_point(x0, l_value, sigma_value, mu_value, us[4])

\* The configurations tried, well-formed and malformed.
LConfigs ==
    {Scalar(R(1)), Scalar(R(4)), Scalar(R(0)), Scalar(R(-1)),
     List(<<R(1), R(4)>>), List(<<R(1), R(16)>>), List(<<R(4), R(1)>>),
     List(<<R(0), R(1)>>), List(<<R(1)>>), List(<<R(1), R(4), R(16)>>)}
SigmaConfigs ==
    {Scalar(R(0)), Scalar(R(1)), Scalar(R(-1)), List(<<R(0), R(2)>>),
     List(<<R(2), R(0)>>), List(<<R(-1), R(1)>>), List(<<R(1), R(2), R(3)>>)}
MuConfigs ==
    {Scalar(R(-1)), Scalar(R(2)), List(<<R(-1), R(2)>>), List(<<R(2), R(-1)>>),
     List(<<R(2)>>)}
X0Configs ==
    {Scalar(R(1)), Scalar(R(-1)), List(<<R(0), R(2)>>), List(<<R(-1), R(1)>>),
     List(<<R(2), R(0)>>), List(<<R(1), R(2), R(3)>>), List(<<>>)}

Samplers == {"weiner", "ou_uniform", "ou_log_uniform"}

InitSampler ==
    /\ s_fn \in Samplers
    /\ s_in \in IF s_fn = "weiner"
                THEN [delta : SigmaConfigs, x0 : X0Configs]
                ELSE [mu : MuConfigs, l : LConfigs, sigma : SigmaConfigs,
                      x0 : X0Configs \cup {None}]
    /\ s_out = <<>>
    /\ OUIdle /\ RngIdle /\ CWIdle
    /\ args = <<>> /\ np_strict = TRUE

SampleWeiner ==
    /\ s_fn = "weiner" /\ s_out = <<>>
    /\ \E us \in U \X U :
          s_out' = weiner_process_uniform_parameters_fn(s_in.delta, s_in.x0, us)
    /\ UNCHANGED <<s_fn, s_in, cwvars, rngvars, ouvars>>

SampleOU ==
    /\ s_fn = "ou_uniform" /\ s_out = <<>>
    /\ \E us \in U \X U \X U \X U :
          s_out' = ornshtein_uhlenbeck_uniform_parameters_fn(
                       s_in.mu, s_in.l, s_in.sigma, s_in.x0, us)
    /\ UNCHANGED <<s_fn, s_in, cwvars, rngvars, ouvars>>

SampleOULog ==
    /\ s_fn = "ou_log_uniform" /\ s_out = <<>>
    /\ \E us \in U \X U \X U \X U :
          s_out' = ornshtein_uhlenbeck_log_uniform_parameters_fn(
                       s_in.mu, s_in.l, s_in.sigma, s_in.x0, us)
    /\ UNCHANGED <<s_fn, s_in, cwvars, rngvars, ouvars>>

NextSampler == SampleWeiner \/ SampleOU \/ SampleOULog

SpecSampler == InitSampler /\ [][NextSampler]_vars

\* C5: a sampling call that rejects its configuration has made no random
\* draw.
C5_RejectedBeforeAnyDraw ==
    (s_out # <<>> /\ s_out.status = "raised") => s_out.draws = 0

\* The value sampled for parameter f lies in the interval configured for
\* it, and is the scalar itself when a scalar was configured.
InConfigured(f) ==
    LET p == as_list(s_in[f])
        v == s_out.value[f]
    IN /\ Leq(p[1], v) /\ Leq(v, p[2])
       /\ s_in[f].kind = "scalar" => v = s_in[f].v

---------------------------------------------------------------------------
(* ornshtein_uhlenbeck_process_fn.  x[j] of the model is x[j - 1] of the   *)
(* code; ou_i is the index the loop fills next, counted as the code does.  *)

\* Lines 85-86 without the pull towards the mean.
ou_next_no_mean(prev, mu, l, sigma, dt, z) ==
    Add(Mul(prev, ExpNeg(l * dt)),
        Mul(Mul(sigma, Sqrt(Div(Sub(R(1), ExpNeg(2 * l * dt)), Ln2Times(2 * l)))), z))

\* Lines 85-86: the next point from the previous one and a normal draw.
ou_next(prev, mu, l, sigma, dt, z) ==
    Add(Add(Mul(prev, ExpNeg(l * dt)), Mul(mu, Sub(R(1), ExpNeg(l * dt)))),
        Mul(Mul(sigma, Sqrt(Div(Sub(R(1), ExpNeg(2 * l * dt)), Ln2Times(2 * l)))), z))

\* Lines 81-83: np.zeros(n), then x[0] = x0.
OUAllocate ==
    /\ ou_pc = "entry"
    /\ IF ou_args.num_points < 0
       THEN ou_pc' = "ValueError" /\ x' = <<>>
       ELSE IF ou_args.num_points = 0
       THEN ou_pc' = "IndexError" /\ x' = <<>>
       ELSE /\ ou_pc' = "loop"
            /\ x' = [j \in 1..ou_args.num_points |-> IF j = 1 THEN ou_args.x0 ELSE R(0)]
    /\ ou_i' = 1
    /\ UNCHANGED <<ou_args, cwvars, rngvars, svars>>

\* Lines 84-86: one iteration.
OUStep ==
    /\ ou_pc = "loop"
    /\ ou_i < ou_args.num_points
    /\ \E z \in NormalDraws(ou_args.sigma) :
          x' = [x EXCEPT ![ou_i + 1] =
                   ou_next(x[ou_i], ou_args.mu, ou_args.l, ou_args.sigma, ou_args.dt, z)]
    /\ ou_i' = ou_i + 1
    /\ UNCHANGED <<ou_args, ou_pc, cwvars, rngvars, svars>>

\* Line 88.
OUReturn ==
    /\ ou_pc = "loop"
    /\ ou_i >= ou_args.num_points
    /\ ou_pc' = "returned"
    /\ UNCHANGED <<ou_args, ou_i, x, cwvars, rngvars, svars>>

InitOU ==
    /\ ou_args \in [num_points : -1 .. MaxLen, mu : {R(0), R(5)}, l : {-1, 0, 1, 2},
                    sigma : {R(0), R(1)}, x0 : {R(-3), R(0), R(5)}, dt : {0, 1, 2}]
    /\ ou_pc = "entry" /\ ou_i = 0 /\ x = <<>>
    /\ CWIdle /\ RngIdle /\ SamplerIdle
    /\ args = <<>> /\ np_strict = TRUE

NextOU == OUAllocate \/ OUStep \/ OUReturn

SpecOU == InitOU /\ [][NextOU]_vars

\* The distance of point j to the mean.
Dist(j) == AbsR(Sub(x[j], ou_args.mu))

\* C10: the trajectory has num_points points, starts at x0 and each later
\* point follows from the previous one by the OU recurrence (the points not
\* yet computed are zero); with sigma = 0, l > 0 and a positive time
\* increment every step multiplies the distance to mu by exp(-l*dt), so the
\* distance never grows, shrinks unless it is already zero, and a trajectory
\* that starts at mu stays there.
C10_Contraction ==
    (ou_pc \in {"loop", "returned"}) =>
        /\ Len(x) = ou_args.num_points
        /\ x[1] = ou_args.x0
        /\ \A j \in 2..ou_args.num_points :
              IF j > ou_i THEN x[j] = R(0)
              ELSE \E z \in Z : x[j] = ou_next(x[j - 1], ou_args.mu, ou_args.l,
                                               ou_args.sigma, ou_args.dt, z)
        /\ (ou_args.sigma = R(0) /\ ou_args.l > 0 /\ ou_args.dt > 0) =>
              \A j \in 2..ou_i :
                  /\ Dist(j) = Mul(Dist(j - 1), ExpNeg(ou_args.l * ou_args.dt))
                  /\ Leq(Dist(j), Dist(j - 1))
                  /\ Dist(j) = Dist(j - 1) => x[j - 1] = ou_args.mu
                  /\ x[1] = ou_args.mu => x[j] = ou_args.mu

C10_Witness ==
    /\ ou_pc = "returned" /\ ou_args.sigma = R(0) /\ ou_args.l = 1 /\ ou_args.dt = 1
    /\ ou_args.num_points = 4 /\ ou_args.mu = R(5)
    /\ x = <<R(0), Q(5, 2), Q(15, 4), Q(35, 8)>>

===========================================================================
